---------------------------- MODULE Spec2Model ----------------------------
(***************************************************************************)
(* A model of python-twitch-stream's chat client (chat.py): the class      *)
(* TwitchChatStream with its connection handling, its rate-gated sends,    *)
(* its regular-expression line parser and its non-blocking receive loop.   *)
(*                                                                         *)
(* Byte strings are sequences of one-character strings.  The regular       *)
(* expressions of the source are kept as data and run by a backtracking    *)
(* matcher with Python's priorities (greedy and lazy repetition, ordered   *)
(* alternation, leftmost match for findall).                               *)
(***************************************************************************)
EXTENDS Integers, Sequences, FiniteSets, TLC

(***************************************************************************)
(* Characters.                                                             *)
(***************************************************************************)
CR == "\r"
LF == "\n"
\* A byte that is not valid UTF-8 on its own (such as 0xff).
BadByte == "<ff>"

\* [a-zA-Z0-9_]
WordChars ==
  { "a","b","c","d","e","f","g","h","i","j","k","l","m",
    "n","o","p","q","r","s","t","u","v","w","x","y","z",
    "A","B","C","D","E","F","G","H","I","J","K","L","M",
    "N","O","P","Q","R","S","T","U","V","W","X","Y","Z",
    "0","1","2","3","4","5","6","7","8","9","_" }

Bytes == WordChars \cup { " ", "!", "@", "#", ":", ".", "*", ")", CR, LF, BadByte }

\* What "." matches: every byte but the line feed (no DOTALL flag is used).
Dot == Bytes \ { LF }

(***************************************************************************)
(* Regular expressions as data: a sequence of atoms.                       *)
(*   str   a literal string                                                *)
(*   set   bytes of cs, repeated as q says: "+" (greedy, one or more),     *)
(*         "*?" (lazy, none or more)                                       *)
(*   alt   ordered alternation of sub-expressions                          *)
(*   open / close   the bounds of capture group 1                          *)
(*   eol   "$": the end of the data, or just before a final line feed      *)
(***************************************************************************)
Lit(str) == << [k |-> "str", str |-> str] >>
Plus(cs) == << [k |-> "set", cs |-> cs, q |-> "+"] >>
LazyStar(cs) == << [k |-> "set", cs |-> cs, q |-> "*?"] >>
Alt(alts) == << [k |-> "alt", alts |-> alts] >>
Open  == << [k |-> "open"] >>
Close == << [k |-> "close"] >>
Eol   == << [k |-> "eol"] >>

NoCap == [from |-> 0, to |-> 0]

Max(S) == CHOOSE x \in S : \A y \in S : y <= x
Min(S) == CHOOSE x \in S : \A y \in S : x <= y

\* The number of consecutive bytes of cs in data from position pos on.
Run(cs, data, pos) ==
  Max({ n \in 0..(Len(data) + 1 - pos) :
          \A i \in pos..(pos + n - 1) : data[i] \in cs })

\* Whether data holds str at position pos.
HasAt(data, pos, str) ==
  /\ pos + Len(str) - 1 <= Len(data)
  /\ \A i \in 1..Len(str) : data[pos + i - 1] = str[i]

RECURSIVE Match(_, _, _, _), Repeat(_, _, _, _, _, _), FirstAlt(_, _, _, _, _),
          MatchAfter(_, _, _, _, _, _)
\* The match of expression re against data from position pos on that a
\* backtracking matcher finds first, as << [end, cap] >>; << >> if none.
Match(re, data, pos, cap) ==
  IF Len(re) = 0
  THEN << [end |-> pos, cap |-> cap] >>
  ELSE CASE Head(re).k = "str" ->
              IF HasAt(data, pos, Head(re).str)
              THEN Match(Tail(re), data, pos + Len(Head(re).str), cap)
              ELSE << >>
         [] Head(re).k = "set" /\ Head(re).q = "+" ->
              Repeat(Tail(re), data, pos, cap, 1..Run(Head(re).cs, data, pos), TRUE)
         [] Head(re).k = "set" /\ Head(re).q = "*?" ->
              Repeat(Tail(re), data, pos, cap, 0..Run(Head(re).cs, data, pos), FALSE)
         [] Head(re).k = "alt" ->
              FirstAlt(Head(re).alts, Tail(re), data, pos, cap)
         [] Head(re).k = "open" ->
              Match(Tail(re), data, pos, [cap EXCEPT !.from = pos])
         [] Head(re).k = "close" ->
              Match(Tail(re), data, pos, [cap EXCEPT !.to = pos])
         [] Head(re).k = "eol" ->
              IF pos = Len(data) + 1 \/ (pos = Len(data) /\ data[pos] = LF)
              THEN Match(Tail(re), data, pos, cap)
              ELSE << >>

\* A repetition that may take any number of bytes in counts: a greedy one
\* takes the largest count after which the rest of the expression matches,
\* a lazy one the smallest.
Repeat(rest, data, pos, cap, counts, greedy) ==
  MatchAfter(rest, data, pos, cap,
             { n \in counts : Len(Match(rest, data, pos + n, cap)) > 0 }, greedy)

MatchAfter(rest, data, pos, cap, viable, greedy) ==
  IF viable = { }
  THEN << >>
  ELSE Match(rest, data, pos + (IF greedy THEN Max(viable) ELSE Min(viable)), cap)

\* The first alternative, in their order, after which the rest matches.
FirstAlt(alts, rest, data, pos, cap) ==
  IF Len(alts) = 0
  THEN << >>
  ELSE IF Len(Match(Head(alts) \o rest, data, pos, cap)) > 0
  THEN Match(Head(alts) \o rest, data, pos, cap)
  ELSE FirstAlt(Tail(alts), rest, data, pos, cap)

\* re.match(re, data): whether there is a match at the start of data.
ReMatch(re, data) == Len(Match(re, data, 1, NoCap)) > 0

\* re.search: the match at the leftmost position that has one.
MatchAtFirst(re, data, starts) ==
  IF starts = { } THEN << >> ELSE Match(re, data, Min(starts), NoCap)

Search(re, data) ==
  MatchAtFirst(re, data,
               { i \in 1..(Len(data) + 1) : Len(Match(re, data, i, NoCap)) > 0 })

\* The groups of a sequence of matches.
Groups(data, ms) ==
  [i \in 1..Len(ms) |-> SubSeq(data, ms[i].cap.from, ms[i].cap.to - 1)]

\* re.findall(re, data)[:1] for an expression with one group: the group of
\* the leftmost match, if any.  anchored is TRUE for an expression starting
\* with "^", which (without MULTILINE) matches at the start of the data only.
FindallFirst(re, anchored, data) ==
  Groups(data, IF anchored THEN Match(re, data, 1, NoCap) ELSE Search(re, data))

(***************************************************************************)
(* The literals of the protocol.                                           *)
(***************************************************************************)
S_tmi == << "t","m","i",".","t","w","i","t","c","h",".","t","v" >>
S_testserver == << "t","e","s","t","s","e","r","v","e","r",".","l","o","c","a","l" >>
S_PING == << "P","I","N","G" >>
S_PONG == << "P","O","N","G" >>
S_PRIVMSG == << "P","R","I","V","M","S","G" >>
S_NOTICE == << "N","O","T","I","C","E" >>
S_Login == << "L","o","g","i","n" >>
S_unsuccessful == << "u","n","s","u","c","c","e","s","s","f","u","l" >>
SP == << " " >>
CRLF == << CR, LF >>

(***************************************************************************)
(* The expressions of chat.py.                                             *)
(***************************************************************************)
\* The expression of the login check without its final "$".
LoginFailedPrefixRe ==
  Lit(<<":">>) \o Alt(<< Lit(S_testserver), Lit(S_tmi) >>) \o Lit(SP)
  \o Lit(S_NOTICE) \o Lit(<<" ", "*", " ", ":">>) \o Lit(S_Login) \o Lit(SP)
  \o Lit(S_unsuccessful) \o Lit(CRLF)

\* r'^:(testserver\.local|tmi\.twitch\.tv) NOTICE \* :Login unsuccessful\r\n$'
LoginFailedRe ==
  Lit(<<":">>) \o Alt(<< Lit(S_testserver), Lit(S_tmi) >>) \o Lit(SP)
  \o Lit(S_NOTICE) \o Lit(<<" ", "*", " ", ":">>) \o Lit(S_Login) \o Lit(SP)
  \o Lit(S_unsuccessful) \o Lit(CRLF) \o Eol

\* r'^PING :(tmi\.twitch\.tv|\.testserver\.local)$'
PingRe ==
  Lit(S_PING) \o Lit(<<" ", ":">>)
  \o Alt(<< Lit(S_tmi), Lit(<<".">> \o S_testserver) >>) \o Eol

\* r'^:[a-zA-Z0-9_]+\![a-zA-Z0-9_]+@[a-zA-Z0-9_]+'
\* r'(\.tmi\.twitch\.tv|\.testserver\.local) '
\* r'PRIVMSG #[a-zA-Z0-9_]+ :.+$'
MessageRe ==
  Lit(<<":">>) \o Plus(WordChars) \o Lit(<<"!">>) \o Plus(WordChars)
  \o Lit(<<"@">>) \o Plus(WordChars)
  \o Alt(<< Lit(<<".">> \o S_tmi), Lit(<<".">> \o S_testserver) >>) \o Lit(SP)
  \o Lit(S_PRIVMSG) \o Lit(<<" ", "#">>) \o Plus(WordChars) \o Lit(<<" ", ":">>)
  \o Plus(Dot) \o Eol

\* r'^:.+\![a-zA-Z0-9_]+@[a-zA-Z0-9_]+.+ PRIVMSG (.*?) :'
ChannelRe ==
  Lit(<<":">>) \o Plus(Dot) \o Lit(<<"!">>) \o Plus(WordChars) \o Lit(<<"@">>)
  \o Plus(WordChars) \o Plus(Dot) \o Lit(SP) \o Lit(S_PRIVMSG) \o Lit(SP)
  \o Open \o LazyStar(Dot) \o Close \o Lit(<<" ", ":">>)

\* r'^:([a-zA-Z0-9_]+)\!'
UsernameRe ==
  Lit(<<":">>) \o Open \o Plus(WordChars) \o Close \o Lit(<<"!">>)

\* r'.+:(.+)': what follows the last ":" that something follows.
AfterLastColonRe ==
  Plus(Dot) \o Lit(<<":">>) \o Open \o Plus(Dot) \o Close

\* r'PRIVMSG #[a-zA-Z0-9_]+ :(.+)'
TextRe ==
  Lit(S_PRIVMSG) \o Lit(<<" ", "#">>) \o Plus(WordChars) \o Lit(<<" ", ":">>)
  \o Open \o Plus(Dot) \o Close

\* A login check that accepts every response.
LoggedInAlways(data) == TRUE

\* TwitchChatStream._twitch_logged_in
_twitch_logged_in(data) == ~ ReMatch(LoginFailedRe, data)

\* TwitchChatStream._check_has_ping
_check_has_ping(data) == ReMatch(PingRe, data)

\* TwitchChatStream._check_has_message
_check_has_message(data) == ReMatch(MessageRe, data)

\* bytes.decode('utf8'): the text of valid UTF-8; an invalid byte raises.
DecodeFails(bytes) == \E i \in 1..Len(bytes) : bytes[i] = BadByte


(***************************************************************************)
(* _parse_message, on one line.  The result is what the call does:         *)
(*   [raised |-> an exception name or "none", value |-> what it returns]   *)
(* A returned value is a sequence: << >> for None, << d >> for the         *)
(* dictionary d.                                                           *)
(***************************************************************************)
None == 0
NoEvent == << >>

\* The attributes an instance of TwitchChatStream has (class body and __init__).
Attributes ==
  { "username", "oauth", "s", "last_sent_time",
    "__init__", "_twitch_logged_in", "_check_has_ping", "_check_has_message",
    "connect", "_send", "_send_pong", "send_chat_message", "_parse_message",
    "twitch_recieve_messages" }

\* The method _parse_message calls on a ping line.
PingHandler == "send_pong"

\* The dictionary of the "return" statement, from the three findall lists:
\* "[0]" of an empty list raises, and so does decoding invalid UTF-8.
Dictionary(channel, username, message) ==
  IF Len(channel) = 0 \/ Len(username) = 0 \/ Len(message) = 0
  THEN [raised |-> "IndexError", value |-> NoEvent]
  ELSE IF DecodeFails(message[1])
  THEN [raised |-> "UnicodeDecodeError", value |-> NoEvent]
  ELSE [raised |-> "none",
        value |-> << [channel |-> channel[1],
                      username |-> username[1],
                      message |-> message[1]] >>]

\* The dictionary built for a line that _check_has_message accepts.
MessageFields(data) ==
  Dictionary(FindallFirst(ChannelRe, TRUE, data),
             FindallFirst(UsernameRe, TRUE, data),
             FindallFirst(TextRe, FALSE, data))

\* _parse_message for a line on which the ping branch, if taken, has
\* returned normally.
ParseAfterPing(data) ==
  IF _check_has_message(data)
  THEN MessageFields(data)
  ELSE [raised |-> "none", value |-> NoEvent]

(***************************************************************************)
(* The session.                                                            *)
(***************************************************************************)
VARIABLES
  now,             \* time.time(), in seconds
  s,               \* self.s: None or the index in socks of the session's socket
  last_sent_time,  \* self.last_sent_time
  socks,           \* every socket created so far, in creation order
  log,             \* what the running (or last) operation did to sockets
  gate,            \* observation: the last call of _send (last) and the last
                   \* call before it that passed the gate (prev)
  pc,              \* "idle", or "recv" inside twitch_recieve_messages
  result,          \* the local list of twitch_recieve_messages
  received,        \* observation: the chunks this call has read
  op,              \* the running (or last) operation
  raised,          \* the exception the last operation raised, or "none"
  ret,             \* the list the last twitch_recieve_messages returned
  line,            \* the input of the parser check
  parsed,          \* its output
  source           \* the parsed message from which line was built, if any

vars == << now, s, last_sent_time, socks, log, gate, pc, result, received,
           op, raised, ret, line, parsed, source >>

\* Bounds of the model.
MaxTime == 12
MaxSocks == 2
MaxReads == 2

\* "if time.time() - self.last_sent_time > 5" (seconds)
SendInterval == 5

\* self.username and self.oauth
Username == << "b","o","t" >>
Oauth == << "o","a","u","t","h",":","x" >>

\* socket.socket(): open, blocking, nothing read yet.  eof: the peer has
\* closed the connection; empty: the parity of the number of recv calls of
\* twitch_recieve_messages that returned ''.
NewSocket ==
  [open |-> TRUE, nonblock |-> FALSE, accepted |-> FALSE, eof |-> FALSE,
   empty |-> 0]

Event(e, sock, data) == [e |-> e, sock |-> sock, data |-> data]

\* The fields of the object that the methods read and write.
Self ==
  [s |-> s, last_sent_time |-> last_sent_time, socks |-> socks,
   log |-> log, gate |-> gate]

(***************************************************************************)
(* connect().  outcome is what the network does: the TCP connect is        *)
(* refused, or it succeeds and the first recv(1024) returns response.      *)
(* active is the exception being handled by the caller ("none" outside an  *)
(* except clause): it is what the bare "raise" of line 110 re-raises.      *)
(***************************************************************************)
BareRaise(active) == IF active = "none" THEN "TypeError" ELSE active

connect(self, outcome, active) ==
  LET id == Len(self.socks) + 1
      created == Append(self.socks, NewSocket)
      log1 == self.log \o << Event("create", id, << >>) >>
  IN IF outcome.refused
     THEN [self |-> [self EXCEPT !.socks = created,
                                 !.log = log1 \o << Event("connect_failed", id, << >>) >>],
           raised |-> "socket.error"]
     ELSE
       LET log2 == log1 \o
             << Event("connect", id, << >>),
                Event("send", id, << "P","A","S","S"," " >> \o Oauth \o CRLF),
                Event("send", id, << "N","I","C","K"," " >> \o Username \o CRLF),
                Event("recv", id, outcome.response) >>
           heard == [created EXCEPT ![id].eof = (Len(outcome.response) = 0)]
       IN IF ~ _twitch_logged_in(outcome.response)
          THEN [self |-> [self EXCEPT !.socks = heard, !.log = log2],
                raised |-> BareRaise(active)]
          ELSE
            LET old == self.s
                unblocked == [heard EXCEPT ![id].nonblock = TRUE,
                                           ![id].accepted = TRUE]
                closed == IF old # None
                          THEN [unblocked EXCEPT ![old].open = FALSE]
                          ELSE unblocked
                log3 == log2 \o << Event("nonblock", id, << >>) >>
                          \o (IF old # None
                              THEN << Event("close", old, << >>) >>
                              ELSE << >>)
                          \o << Event("store", id, << >>),
                                Event("send", id,
                                      << "J","O","I","N"," ","#" >> \o Username \o CRLF) >>
            IN [self |-> [self EXCEPT !.socks = closed, !.s = id, !.log = log3],
                raised |-> "none"]

(***************************************************************************)
(* _send(message) at time t.  sendok: whether the socket accepts the       *)
(* write (s.send may raise socket.error).                                  *)
(***************************************************************************)
\* The gate with ">=" for ">".
GateOpenAtInterval(t, last) == t - last >= SendInterval

\* No gate.
GateAlwaysOpen(t, last) == TRUE

GateOpen(t, last) == t - last > SendInterval

\* The time stored after a write that did not raise only ("else" for
\* "finally").
StampOnSuccess(t, last, failed) == IF failed THEN last ELSE t

\* What "finally" stores in self.last_sent_time after the write attempt
\* (whether it raised or not).
StampAfter(t, last, failed) == t

_send(self, who, message, sendok, t) ==
  LET passed == GateOpen(t, self.last_sent_time) /\ Len(message) > 0
      onsocket == passed /\ self.s # None
      failure == IF ~ passed THEN "none"
                 ELSE IF self.s = None THEN "AttributeError"
                 ELSE IF sendok THEN "none" ELSE "socket.error"
      gate1 == [prev |-> IF self.gate.last.passed THEN self.gate.last
                         ELSE self.gate.prev,
                last |-> [who |-> who, t |-> t, passed |-> passed,
                          sent |-> onsocket, raised |-> failure]]
  IN [self |-> [self EXCEPT
                  !.last_sent_time =
                     IF passed THEN StampAfter(t, @, failure # "none") ELSE @,
                  !.log = IF onsocket
                          THEN @ \o << Event(IF sendok THEN "send" ELSE "send_failed",
                                             self.s, message \o << LF >>) >>
                          ELSE @,
                  !.gate = gate1],
      raised |-> failure]

\* A pong that is written whatever last_sent_time is, and leaves it alone.
UngatedPong(self, sendok, t) ==
  LET r == _send([self EXCEPT !.last_sent_time = t - SendInterval - 1],
                 "pong", S_PONG, sendok, t)
  IN [r EXCEPT !.self.last_sent_time = self.last_sent_time]

\* _send_pong()
_send_pong(self, sendok, t) == _send(self, "pong", S_PONG, sendok, t)

\* send_chat_message(message)
send_chat_message(self, message, sendok, t) ==
  _send(self, "chat",
        S_PRIVMSG \o << " ", "#" >> \o Username \o << " ", ":" >> \o message,
        sendok, t)

(***************************************************************************)
(* _parse_message(data): [self, raised, value].                            *)
(***************************************************************************)
\* "self.send_pong()": the call of an attribute the object may not have.
CallPingHandler(self, sendok, t) ==
  IF PingHandler \notin Attributes
  THEN [self |-> self, raised |-> "AttributeError"]
  ELSE _send_pong(self, sendok, t)

\* The second "if" of _parse_message, reached unless the first one raised.
AfterPing(pong, data) ==
  IF pong.raised # "none"
  THEN [self |-> pong.self, raised |-> pong.raised, value |-> NoEvent]
  ELSE [self |-> pong.self] @@ ParseAfterPing(data)

_parse_message(self, data, sendok, t) ==
  AfterPing(IF _check_has_ping(data)
            THEN CallPingHandler(self, sendok, t)
            ELSE [self |-> self, raised |-> "none"],
            data)

(***************************************************************************)
(* twitch_recieve_messages: the handling of one chunk.                     *)
(***************************************************************************)
\* The index of the first CR LF in data, or 0.
FindCRLF(data) ==
  LET at == { i \in 1..(Len(data) - 1) : data[i] = CR /\ data[i + 1] = LF }
  IN IF at = { } THEN 0 ELSE Min(at)

\* msg.split('\r\n')
RECURSIVE SplitCRLF(_)
SplitCRLF(data) ==
  LET i == FindCRLF(data)
  IN IF i = 0 THEN << data >>
     ELSE << SubSeq(data, 1, i - 1) >> \o SplitCRLF(SubSeq(data, i + 2, Len(data)))

\* filter(None, lines): the non-empty lines, in order.
FilterNone(lines) == SelectSeq(lines, LAMBDA l : Len(l) > 0)

\* [self._parse_message(line) for line in lines], then "remove Nones":
\* [self, raised, rec].  An exception ends the comprehension.
RECURSIVE ParseLines(_, _, _, _, _), ParseRest(_, _, _, _, _)
\* The comprehension collecting in reverse order.
ParseRestPrepending(r, lines, sendok, t, rec) ==
  IF r.raised # "none"
  THEN [self |-> r.self, raised |-> r.raised, rec |-> << >>]
  ELSE ParseLines(r.self, lines, sendok, t, r.value \o rec)

ParseLines(self, lines, sendok, t, rec) ==
  IF Len(lines) = 0
  THEN [self |-> self, raised |-> "none", rec |-> rec]
  ELSE ParseRest(_parse_message(self, Head(lines), sendok, t),
                 Tail(lines), sendok, t, rec)

\* The comprehension after its first line returned or raised r.
ParseRest(r, lines, sendok, t, rec) ==
  IF r.raised # "none"
  THEN [self |-> r.self, raised |-> r.raised, rec |-> << >>]
  ELSE ParseLines(r.self, lines, sendok, t, rec \o r.value)

\* The "else" branch of the loop body, for a chunk msg.
HandleChunk(self, msg, sendok, t) ==
  ParseLines(self, FilterNone(SplitCRLF(msg)), sendok, t, << >>)

(***************************************************************************)
(* What the network can say.                                               *)
(***************************************************************************)
HostTmi == << "a" >> \o << "." >> \o S_tmi

\* ":<nick>!<user>@<host> PRIVMSG #<channel> :<text>"
PrivmsgLine(nick, user, host, channel, text) ==
  << ":" >> \o nick \o << "!" >> \o user \o << "@" >> \o host \o SP
  \o S_PRIVMSG \o << " ", "#" >> \o channel \o << " ", ":" >> \o text

PingLine == S_PING \o << " ", ":" >> \o S_tmi
NoticeLine == << ":" >> \o S_tmi \o SP \o S_NOTICE \o << " ", "*", " ", ":" >> \o << "h","i" >>
HelloLine == PrivmsgLine(<<"a">>, <<"a">>, HostTmi, <<"c","h","a","n">>,
                         <<"h","e","l","l","o">>)
ByeLine == PrivmsgLine(<<"b">>, <<"b">>, << "b", "." >> \o S_testserver, <<"c">>,
                       <<"b","y","e">>)

\* The chunks a recv(4096) may return (the empty chunk, a closed peer, apart).
Chunks ==
  { HelloLine \o CRLF,
    HelloLine \o CRLF \o PingLine \o CRLF,
    ByeLine \o CRLF \o CRLF \o NoticeLine \o CRLF \o HelloLine \o CRLF,
    NoticeLine \o CRLF,
    SubSeq(HelloLine, 1, 20),
    SubSeq(HelloLine, 21, Len(HelloLine)) \o CRLF }

LoginFailedNotice ==
  << ":" >> \o S_tmi \o SP \o S_NOTICE \o << " ", "*", " ", ":" >> \o S_Login \o SP
  \o S_unsuccessful \o CRLF
WelcomeNotice == << ":" >> \o S_tmi \o << " ", "0", "0", "1" >> \o CRLF

\* The first responses of the server to PASS and NICK.
TestserverFailedNotice ==
  << ":" >> \o S_testserver \o SP \o S_NOTICE \o << " ", "*", " ", ":" >> \o S_Login
  \o SP \o S_unsuccessful \o CRLF

LoginResponses ==
  { LoginFailedNotice, WelcomeNotice, << >>, WelcomeNotice \o LoginFailedNotice,
    TestserverFailedNotice, LoginFailedNotice \o WelcomeNotice,
    LoginFailedNotice \o << LF >> }

ConnectOutcomes ==
  { [refused |-> TRUE, response |-> << >>] }
  \cup { [refused |-> FALSE, response |-> r] : r \in LoginResponses }

\* Whether a write of the pong handler can fail: there is a write only if
\* the handler exists.
SendOutcomes == IF PingHandler \in Attributes THEN BOOLEAN ELSE { TRUE }

(***************************************************************************)
(* The state after __init__(username, oauth, connect=False); with          *)
(* connect=True the constructor goes on with Connect.                      *)
(***************************************************************************)
\* No call of _send yet.
NoCall == [who |-> "none", t |-> 0, passed |-> FALSE, sent |-> FALSE,
           raised |-> "none"]
NoCalls == [prev |-> NoCall, last |-> NoCall]

NotParsed == [raised |-> "not parsed", value |-> NoEvent]

Init ==
  /\ now = 0
  /\ s = None
  /\ last_sent_time = 0
  /\ socks = << >>
  /\ log = << >>
  /\ gate = NoCalls
  /\ pc = "idle"
  /\ result = << >>
  /\ received = << >>
  /\ op = "__init__"
  /\ raised = "none"
  /\ ret = << >>
  /\ line = << >>
  /\ parsed = NotParsed
  /\ source = << >>

\* The fields of the object as an operation starting now sees them.
Start == [Self EXCEPT !.log = << >>]

Commit(self) ==
  /\ s' = self.s
  /\ last_sent_time' = self.last_sent_time
  /\ socks' = self.socks
  /\ log' = self.log
  /\ gate' = self.gate

\* Time passes.
Tick ==
  /\ now < MaxTime
  /\ now' = now + 1
  /\ UNCHANGED << s, last_sent_time, socks, log, gate, pc, result, received,
                  op, raised, ret, line, parsed, source >>

\* A connect() that starts the clock of the gate afresh.
ConnectStamping ==
  /\ pc = "idle"
  /\ Len(socks) < MaxSocks
  /\ \E outcome \in ConnectOutcomes :
       \E r \in { connect([Start EXCEPT !.last_sent_time = now], outcome, "none") } :
          /\ Commit(r.self)
          /\ raised' = r.raised
  /\ op' = "connect"
  /\ UNCHANGED << now, pc, result, received, ret, line, parsed, source >>

\* The caller (or __init__) calls connect().
Connect ==
  /\ pc = "idle"
  /\ Len(socks) < MaxSocks
  /\ \E outcome \in ConnectOutcomes :
       \E r \in { connect(Start, outcome, "none") } :
          /\ Commit(r.self)
          /\ raised' = r.raised
  /\ op' = "connect"
  /\ UNCHANGED << now, pc, result, received, ret, line, parsed, source >>

\* The caller calls send_chat_message(message).
SendChatMessage ==
  /\ pc = "idle"
  /\ \E message \in { << >>, << "h", "i" >> }, sendok \in BOOLEAN :
       \E r \in { send_chat_message(Start, message, sendok, now) } :
          /\ Commit(r.self)
          /\ raised' = r.raised
  /\ op' = "send_chat_message"
  /\ UNCHANGED << now, pc, result, received, ret, line, parsed, source >>

\* A call of _send_pong().
SendPong ==
  /\ pc = "idle"
  /\ \E sendok \in BOOLEAN :
       \E r \in { _send_pong(Start, sendok, now) } :
          /\ Commit(r.self)
          /\ raised' = r.raised
  /\ op' = "_send_pong"
  /\ UNCHANGED << now, pc, result, received, ret, line, parsed, source >>

\* A call of _send('') (the empty message).
SendEmpty ==
  /\ pc = "idle"
  /\ \E r \in { _send(Start, "raw", << >>, TRUE, now) } :
        /\ Commit(r.self)
        /\ raised' = r.raised
  /\ op' = "_send"
  /\ UNCHANGED << now, pc, result, received, ret, line, parsed, source >>

\* The caller calls twitch_recieve_messages(): "result = []" and the entry
\* of the loop.  Without a socket the first self.s.recv raises.
PollBegin ==
  /\ pc = "idle"
  /\ op' = "twitch_recieve_messages"
  /\ log' = << >>
  /\ result' = << >>
  /\ received' = << >>
  /\ ret' = << >>
  /\ IF s = None
     THEN pc' = "idle" /\ raised' = "AttributeError"
     ELSE pc' = "recv" /\ raised' = "none"
  /\ UNCHANGED << now, s, last_sent_time, socks, gate, line, parsed, source >>

\* A read whose chunk is parsed after the unfinished last line of the chunk
\* before it.
ReadDataJoining ==
  /\ pc = "recv"
  /\ ~ socks[s].eof
  /\ Len(received) < MaxReads
  /\ \E msg \in Chunks, sendok \in SendOutcomes :
       \E r \in { HandleChunk(Self,
                               (IF Len(received) > 0
                                THEN SplitCRLF(received[Len(received)])
                                       [Len(SplitCRLF(received[Len(received)]))]
                                ELSE << >>) \o msg,
                               sendok, now) } :
          /\ Commit(r.self)
          /\ raised' = r.raised
          /\ received' = Append(received, msg)
          /\ IF r.raised = "none"
             THEN pc' = "recv" /\ result' = result \o r.rec
             ELSE pc' = "idle" /\ result' = << >>
  /\ UNCHANGED << now, op, ret, line, parsed, source >>

\* recv returns a chunk of data: it is parsed and the loop goes on, unless
\* the parsing raises.
ReadData ==
  /\ pc = "recv"
  /\ ~ socks[s].eof
  /\ Len(received) < MaxReads
  /\ \E msg \in Chunks, sendok \in SendOutcomes :
       \E r \in { HandleChunk(Self, msg, sendok, now) } :
          /\ Commit(r.self)
          /\ raised' = r.raised
          /\ received' = Append(received, msg)
          /\ IF r.raised = "none"
             THEN pc' = "recv" /\ result' = result \o r.rec
             ELSE pc' = "idle" /\ result' = << >>
  /\ UNCHANGED << now, op, ret, line, parsed, source >>

\* recv returns '': the peer has closed the connection.  The chunk holds no
\* line and the loop goes on, to a recv that returns '' again.
ReadEof ==
  /\ pc = "recv"
  /\ \E r \in { HandleChunk(Self, << >>, TRUE, now) } :
        /\ Commit([r.self EXCEPT !.socks[s].eof = TRUE,
                                 !.socks[s].empty = 1 - @])
        /\ raised' = r.raised
        /\ result' = result \o r.rec
  /\ UNCHANGED << now, pc, received, op, ret, line, parsed, source >>

\* EAGAIN and EWOULDBLOCK handled as the other errors are: reconnect, then
\* return.
ReadWouldBlockReconnects ==
  /\ pc = "recv"
  /\ ~ socks[s].eof
  /\ Len(socks) < MaxSocks
  /\ \E outcome \in ConnectOutcomes :
       \E r \in { connect(Self, outcome, "socket.error") } :
          /\ Commit(r.self)
          /\ raised' = r.raised
          /\ ret' = IF r.raised = "none" THEN result ELSE << >>
  /\ pc' = "idle"
  /\ result' = << >>
  /\ UNCHANGED << now, received, op, line, parsed, source >>

\* recv raises EAGAIN or EWOULDBLOCK: the call returns result.
ReadWouldBlock ==
  /\ pc = "recv"
  /\ ~ socks[s].eof
  /\ pc' = "idle"
  /\ ret' = result
  /\ result' = << >>
  /\ raised' = "none"
  /\ UNCHANGED << now, s, last_sent_time, socks, log, gate, received, op,
                  line, parsed, source >>

\* recv raises another socket.error: connect() is called inside the except
\* clause, then the call returns result (if connect() returned).
ReadError ==
  /\ pc = "recv"
  /\ ~ socks[s].eof
  /\ Len(socks) < MaxSocks
  /\ \E outcome \in ConnectOutcomes :
       \E r \in { connect(Self, outcome, "socket.error") } :
          /\ Commit(r.self)
          /\ raised' = r.raised
          /\ ret' = IF r.raised = "none" THEN result ELSE << >>
  /\ pc' = "idle"
  /\ result' = << >>
  /\ UNCHANGED << now, received, op, line, parsed, source >>

\* The interpreter frees the socket objects nothing refers to any more (the
\* local s of a connect() that raised), which closes them.
Unreferenced == { i \in 1..Len(socks) : socks[i].open /\ i # s }

CollectGarbage ==
  /\ Unreferenced # { }
  /\ socks' = [i \in 1..Len(socks) |->
                 IF i \in Unreferenced THEN [socks[i] EXCEPT !.open = FALSE]
                 ELSE socks[i]]
  /\ UNCHANGED << now, s, last_sent_time, log, gate, pc, result, received,
                  op, raised, ret, line, parsed, source >>

(***************************************************************************)
(* The connection and the receive loop: connect() as the caller calls it   *)
(* and as the loop calls it, the reads of twitch_recieve_messages, and the *)
(* interpreter's closing of dropped sockets.                               *)
(***************************************************************************)
Next ==
  \/ Connect
  \/ PollBegin
  \/ ReadData
  \/ ReadEof
  \/ ReadWouldBlock
  \/ ReadError
  \/ CollectGarbage

Spec == Init /\ [][Next]_vars

\* One iteration of the loop of twitch_recieve_messages.
PollStep == ReadData \/ ReadEof \/ ReadWouldBlock \/ ReadError

\* A call that has started keeps running: the interpreter executes the loop
\* as long as it has an iteration to make.
LiveSpec == Spec /\ WF_vars(PollStep)

(***************************************************************************)
(* The rate gate: the sends of the caller as time passes, on a session     *)
(* that connect() may or may not have given a socket.                      *)
(***************************************************************************)
SendNext ==
  \/ Tick
  \/ Connect
  \/ SendChatMessage
  \/ SendPong
  \/ SendEmpty

SendSpec == Init /\ [][SendNext]_vars

(***************************************************************************)
(* The parser on its own: _parse_message applied to one line.              *)
(***************************************************************************)
Nicks == { << "a" >>, << "b", "_", "1" >> }
Hosts == { << "a", "." >> \o S_tmi, << "h", "0", "." >> \o S_testserver }
Channels == { << "c" >>, << "c", "h", "a", "n" >> }
Texts ==
  { << "h", "i" >>,
    << "h", "i", " ", "y", "o", "u" >>,
    << "!" >>,
    << "a", "@", "b" >>,
    << ":", ")" >>,
    << "n", "o", "t", "e", ":", " ", "x" >>,
    S_PRIVMSG,
    << "a", " " >> \o S_PRIVMSG \o << " ", "#", "o", " ", ":", "x" >>,
    << "a", " " >> \o S_PRIVMSG \o << " ", "o", " ", ":", "x" >>,
    << "x", "!", "y", "@", "z", " ", "w", " " >> \o S_PRIVMSG
       \o << " ", "#", "o", " ", ":", "y", "o" >>,
    S_PING \o << " ", ":" >> \o S_tmi }

\* The fields of the lines of the PRIVMSG grammar that are tried.
GrammarFields ==
  [nick : Nicks, user : Nicks, host : Hosts, channel : Channels, text : Texts]

LineOf(f) == PrivmsgLine(f.nick, f.user, f.host, f.channel, f.text)

GrammarLines == { LineOf(f) : f \in { g \in GrammarFields : g.user = g.nick } }

\* Lines that are no PRIVMSG of the grammar (pings among them).
OtherLines ==
  { PingLine,
    S_PING \o << " ", ":", "." >> \o S_testserver,
    S_PING \o << " ", ":", "x", "." >> \o S_testserver,
    PingLine \o << LF >>,
    << " " >> \o PingLine,
    PingLine \o << " " >>,
    S_PING,
    NoticeLine,
    << ":" >> \o S_tmi \o << " ", "0", "0", "1" >>,
    << ":", "a", "!", "a", "@", "a", "." >> \o S_tmi \o << " ", "J", "O", "I", "N", " ", "#", "c" >>,
    SubSeq(HelloLine, 1, 20),
    SubSeq(HelloLine, 21, Len(HelloLine)),
    PrivmsgLine(<<"a">>, <<"a">>, << "a", ".", "x" >>, <<"c">>, <<"h","i">>),
    PrivmsgLine(<<"a">>, <<"a">>, HostTmi, <<"c", ".", "d">>, <<"h","i">>),
    PrivmsgLine(<<"a", ".">>, <<"a">>, HostTmi, <<"c">>, <<"h","i">>),
    PrivmsgLine(<<"a">>, <<"a">>, HostTmi, <<"c">>, << >>),
    PrivmsgLine(<<"a">>, <<"a">>, HostTmi, <<"c">>, <<"a", LF, "b">>),
    PrivmsgLine(<<"a">>, <<"a">>, HostTmi, <<"c">>, <<"h", "i", LF>>),
    PrivmsgLine(<<"a">>, <<"a">>, HostTmi, <<"c">>, <<"a", BadByte>>) }

TestLines == GrammarLines \cup OtherLines

ParseInit ==
  /\ Init!1 /\ Init!2 /\ Init!3 /\ Init!4 /\ Init!5 /\ Init!6 /\ Init!7
  /\ Init!8 /\ Init!9 /\ Init!10 /\ Init!11 /\ Init!12
  /\ line \in TestLines
  /\ parsed = NotParsed
  /\ source = << >>

\* self._parse_message(line)
ParseLine ==
  /\ parsed = NotParsed
  /\ \E sendok \in SendOutcomes :
       \E r \in { _parse_message(Start, line, sendok, now) } :
          /\ Commit(r.self)
          /\ raised' = r.raised
          /\ parsed' = [raised |-> r.raised, value |-> r.value]
  /\ op' = "_parse_message"
  /\ UNCHANGED << now, pc, result, received, ret, line, source >>

\* The line ":<username>!<username>@<username>.tmi.twitch.tv PRIVMSG
\* <channel> :<text>" built from a dictionary that _parse_message returned.
LineFrom(d) ==
  << ":" >> \o d.username \o << "!" >> \o d.username \o << "@" >> \o d.username
  \o << "." >> \o S_tmi \o SP \o S_PRIVMSG \o SP \o d.channel \o << " ", ":" >>
  \o d.message

\* self._parse_message(LineFrom(d)) for the dictionary d just returned.
ParseAgain ==
  /\ source = << >>
  /\ parsed.value # << >>
  /\ source' = parsed.value
  /\ line' = LineFrom(parsed.value[1])
  /\ \E sendok \in SendOutcomes :
       \E r \in { _parse_message(Start, LineFrom(parsed.value[1]), sendok, now) } :
          /\ Commit(r.self)
          /\ raised' = r.raised
          /\ parsed' = [raised |-> r.raised, value |-> r.value]
  /\ op' = "_parse_message"
  /\ UNCHANGED << now, pc, result, received, ret >>

ParseNext == ParseLine \/ ParseAgain

ParseSpec == ParseInit /\ [][ParseNext]_vars

(***************************************************************************)
(* What the properties speak of.                                           *)
(***************************************************************************)
\* The sockets that are open.
OpenSockets == { i \in 1..Len(socks) : socks[i].open }

\* The number of events of the log that satisfy Test.
CountEvents(Test(_)) == Cardinality({ i \in 1..Len(log) : Test(log[i]) })

IsCreate(ev) == ev.e = "create"
IsPongWrite(ev) == ev.e = "send" /\ ev.data = S_PONG \o << LF >>
IsJoin(ev) == ev.e = "send" /\ HasAt(ev.data, 1, << "J", "O", "I", "N" >>)
IsLoginRefusal(ev) == ev.e = "recv" /\ ev.data = LoginFailedNotice

\* The lines of a chunk, and of a sequence of chunks, in arrival order.
LinesOf(chunk) == FilterNone(SplitCRLF(chunk))

RECURSIVE LinesOfAll(_)
LinesOfAll(chunks) ==
  IF Len(chunks) = 0 THEN << >>
  ELSE LinesOf(Head(chunks)) \o LinesOfAll(Tail(chunks))

PingLinesReceived ==
  Cardinality({ i \in 1..Len(LinesOfAll(received)) :
                  LinesOfAll(received)[i] = PingLine })

\* The chat messages of the lines received, for the chunks of the model:
\* HelloLine and ByeLine are its chat lines.
HelloMessage == [channel |-> << "#", "c", "h", "a", "n" >>, username |-> << "a" >>,
                 message |-> << "h", "e", "l", "l", "o" >>]
ByeMessage == [channel |-> << "#", "c" >>, username |-> << "b" >>,
               message |-> << "b", "y", "e" >>]

RECURSIVE ChatOf(_)
ChatOf(lines) ==
  IF Len(lines) = 0 THEN << >>
  ELSE (IF Head(lines) = HelloLine THEN << HelloMessage >>
        ELSE IF Head(lines) = ByeLine THEN << ByeMessage >>
        ELSE << >>) \o ChatOf(Tail(lines))

InPoll == op = "twitch_recieve_messages"

(***************************************************************************)
(* C1.  At every moment the session has created at most one socket that is *)
(* still open, and an open socket is the one stored in self.s: connect()   *)
(* closes the previous handle and leaves no other socket open.             *)
(* The code does not keep this: a connect() that fails (refused, or login  *)
(* rejected) leaves its new socket open and never closes it, next to the   *)
(* one still stored.                                                       *)
(***************************************************************************)
C1_AtMostOneOpenSocket ==
  /\ Cardinality(OpenSockets) <= 1
  /\ OpenSockets \subseteq { s }

(***************************************************************************)
(* C2.  Every call of twitch_recieve_messages returns: a call that is in   *)
(* its loop (over a socket that delivers at most MaxReads chunks) leaves   *)
(* it.                                                                     *)
(* The code does not: once the peer has closed the connection recv         *)
(* returns '' at once, every time, which is neither an error nor a line,   *)
(* and the loop reads again for ever.                                      *)
(***************************************************************************)
C2_PollReturns == (pc = "recv") ~> (pc = "idle")

(***************************************************************************)
(* C3.  For every ping line read during a call of twitch_recieve_messages  *)
(* one PONG is written within the call, and the call goes on: it does not  *)
(* raise, and the chat messages read so far are those collected.           *)
(* The code calls self.send_pong(), a method that does not exist, so a     *)
(* ping line ends the call with AttributeError and writes nothing.         *)
(***************************************************************************)
C3_OnePongPerPing ==
  InPoll =>
    /\ CountEvents(IsPongWrite) = PingLinesReceived
    /\ PingLinesReceived > 0 => raised = "none"
    /\ PingLinesReceived > 0 /\ pc = "recv" => result = ChatOf(LinesOfAll(received))

(***************************************************************************)
(* C4.  When a read of twitch_recieve_messages fails with a socket error   *)
(* other than would-block, the call makes exactly one connect() attempt    *)
(* and returns the messages collected before the fault, whether or not     *)
(* the attempt succeeds.                                                   *)
(* The code lets the exception of a failed connect() leave the call: the   *)
(* collected messages are lost.                                            *)
(***************************************************************************)
C4_FaultReturnsCollected ==
  InPoll /\ pc = "idle" /\ CountEvents(IsCreate) > 0 =>
    /\ CountEvents(IsCreate) = 1
    /\ raised = "none"
    /\ ret = ChatOf(LinesOfAll(received))

(***************************************************************************)
(* C5.  On a session that has a socket, no call of                         *)
(* twitch_recieve_messages raises, whatever is read.                       *)
(* The code raises on a ping line (C3), on a failed reconnect (C4) and on  *)
(* a message that is not UTF-8.                                            *)
(***************************************************************************)
C5_PollNeverRaises ==
  InPoll /\ s # None => raised = "none"

(***************************************************************************)
(* C6.  When the server answers PASS and NICK with the "Login              *)
(* unsuccessful" notice, connect() raises, sends no JOIN, does not retry,  *)
(* and leaves the session without an open socket.                          *)
(* The code leaves self.s as it was: after a rejected reconnect the        *)
(* session still holds the previous socket, which nothing has closed.      *)
(***************************************************************************)
C6_RejectedLoginDisconnects ==
  CountEvents(IsLoginRefusal) > 0 =>
    /\ raised # "none"
    /\ CountEvents(IsJoin) = 0
    /\ CountEvents(IsCreate) = 1
    /\ (s = None \/ ~ socks[s].open)

(***************************************************************************)
(* C7.  A send_chat_message or pong issued when at most 5 seconds have     *)
(* passed since last_sent_time writes nothing, raises nothing and leaves   *)
(* last_sent_time and the socket as they were; and two consecutive writes  *)
(* through _send are more than 5 seconds apart.                            *)
(***************************************************************************)
C7_ClosedGateDropsSend ==
  /\ [][ (SendChatMessage \/ SendPong) /\ now - last_sent_time <= 5 =>
           /\ log' = << >>
           /\ raised' = "none"
           /\ UNCHANGED << s, socks, last_sent_time >> ]_vars
  /\ [](gate.prev.sent /\ gate.last.sent => gate.last.t - gate.prev.t > 5)

\* A send dropped exactly 5 seconds after a write, on a connected session.
C7_Witness ==
  /\ s # None
  /\ gate.prev.sent
  /\ gate.last.who \in { "chat", "pong" }
  /\ ~ gate.last.sent
  /\ gate.last.t - gate.prev.t = 5
  /\ log = << >>

(***************************************************************************)
(* C8, as claimed.  After a send_chat_message that was written at time t,  *)
(* the next send_chat_message, issued at t' with t' - t >= 5, is written   *)
(* too.                                                                    *)
(***************************************************************************)
C8_GapOfFiveOrMoreSends ==
  /\ gate.prev.who = "chat" /\ gate.prev.sent
  /\ gate.last.who = "chat"
  /\ gate.last.t - gate.prev.t >= 5
  => gate.last.sent

(***************************************************************************)
(* C8, amended.  After a send_chat_message that was written and stamped    *)
(* last_sent_time = t, a send_chat_message issued at t', with no write     *)
(* attempt of _send in between, is written exactly if t' - t > 5: a gap    *)
(* of exactly 5 seconds is dropped.                                        *)
(***************************************************************************)
C8_GapOverFiveSends ==
  /\ gate.prev.who = "chat" /\ gate.prev.sent
  /\ gate.last.who = "chat"
  => (gate.last.sent <=> gate.last.t - gate.prev.t > 5)

\* Two chat messages written one after the other.
C8_Witness ==
  /\ gate.prev.who = "chat" /\ gate.prev.sent
  /\ gate.last.who = "chat" /\ gate.last.sent

(***************************************************************************)
(* C9.  When _send passes the gate with a non-empty message,               *)
(* last_sent_time is the time of the attempt afterwards, also when the     *)
(* write failed (socket.error, or AttributeError for want of a socket);    *)
(* and a send within 5 seconds of a failed write is dropped.               *)
(***************************************************************************)
C9_FailedWriteStampsTime ==
  /\ gate.last.passed => last_sent_time = gate.last.t
  /\ /\ gate.prev.raised # "none"
     /\ gate.last.who \in { "chat", "pong" }
     /\ gate.last.t - gate.prev.t <= 5
     => ~ gate.last.sent /\ gate.last.raised = "none"

\* A send dropped exactly 5 seconds after a write that failed.
C9_Witness ==
  /\ gate.prev.raised = "socket.error"
  /\ gate.last.who = "chat"
  /\ gate.last.t - gate.prev.t = 5
  /\ ~ gate.last.sent
  /\ last_sent_time = gate.prev.t

(***************************************************************************)
(* C10.  For a line ":<nick>!<user>@<host> PRIVMSG #<channel> :<text>"     *)
(* _parse_message returns the dictionary with channel "#<channel>",        *)
(* username <nick> and message <text>, also when the text holds "!", "@",  *)
(* ":" or the word PRIVMSG; for a line that is neither a PRIVMSG line nor  *)
(* a ping it returns None.                                                 *)
(***************************************************************************)
\* The fields from which the grammar builds the line.
GrammarOf(l) == CHOOSE f \in GrammarFields : f.user = f.nick /\ LineOf(f) = l

ExpectedOf(l) ==
  << [channel |-> << "#" >> \o GrammarOf(l).channel,
      username |-> GrammarOf(l).nick,
      message |-> GrammarOf(l).text] >>

HasPrivmsg(l) == \E pos \in 1..Len(l) : HasAt(l, pos, S_PRIVMSG)

C10_ParsesGrammarFields ==
  parsed # NotParsed =>
    /\ line \in GrammarLines =>
         parsed.raised = "none" /\ parsed.value = ExpectedOf(line)
    /\ line \in OtherLines /\ ~ HasPrivmsg(line) /\ ~ _check_has_ping(line) =>
         parsed.raised = "none" /\ parsed.value = NoEvent

(***************************************************************************)
(* C11.  Round trip: when _parse_message has returned a dictionary, the    *)
(* line ":<username>!<username>@<username>.tmi.twitch.tv PRIVMSG <channel> *)
(* :<text>" built from it is parsed by _parse_message into the same        *)
(* channel, username and text.                                             *)
(***************************************************************************)
C11_RoundTrip ==
  source # << >> => parsed.raised = "none" /\ parsed.value = source

(***************************************************************************)
(* C12.  When the first read of a call of twitch_recieve_messages reports  *)
(* would-block, the call returns the empty list and changes nothing: no    *)
(* write, no connect() attempt, the same socket, the same last_sent_time.  *)
(***************************************************************************)
C12_EmptyPollHasNoEffect ==
  [][ ReadWouldBlock /\ received = << >> =>
        /\ ret' = << >>
        /\ raised' = "none"
        /\ pc' = "idle"
        /\ log' = << >>
        /\ UNCHANGED << s, socks, last_sent_time, gate >> ]_vars

\* A call on a connected session has returned after a first read that
\* reported would-block.
C12_Witness ==
  /\ InPoll /\ pc = "idle" /\ s # None
  /\ received = << >>
  /\ raised = "none"
  /\ ret = << >>
  /\ log = << >>

(***************************************************************************)
(* C13.  The list that a call of twitch_recieve_messages has collected,    *)
(* and the list it returns after a would-block or an error, holds one      *)
(* message per chat line of the chunks read, in the order of arrival       *)
(* across and within chunks; empty lines and other lines add nothing.      *)
(***************************************************************************)
C13_OneMessagePerChatLine ==
  InPoll /\ s # None /\ raised = "none" =>
    (IF pc = "recv" THEN result ELSE ret) = ChatOf(LinesOfAll(received))

\* A call has returned three messages read in two chunks, the second chunk
\* holding two chat lines, an empty line and a notice.
C13_Witness ==
  /\ InPoll /\ pc = "idle" /\ raised = "none"
  /\ Len(received) = 2
  /\ ret = << HelloMessage, ByeMessage, HelloMessage >>

(***************************************************************************)
(* C14.  A connect() that succeeds sends PASS, then NICK, then reads and   *)
(* checks the first response, then makes the socket non-blocking, then     *)
(* closes the previous handle if there is one, then stores the new handle, *)
(* then sends JOIN #<username>.  So the stored handle has passed the login *)
(* check and is non-blocking, and JOIN is not sent on a socket whose login *)
(* was rejected.                                                           *)
(***************************************************************************)
\* The index in the log of the first event that satisfies Test, or 0.
IndexOf(Test(_)) ==
  IF \E i \in 1..Len(log) : Test(log[i])
  THEN Min({ i \in 1..Len(log) : Test(log[i]) })
  ELSE 0

IsPass(ev) == ev.e = "send" /\ ev.data = << "P","A","S","S"," " >> \o Oauth \o CRLF
IsNick(ev) == ev.e = "send" /\ ev.data = << "N","I","C","K"," " >> \o Username \o CRLF
IsJoinOwn(ev) ==
  ev.e = "send" /\ ev.data = << "J","O","I","N"," ","#" >> \o Username \o CRLF
IsRecv(ev) == ev.e = "recv"
IsNonblock(ev) == ev.e = "nonblock"
IsClose(ev) == ev.e = "close"
IsStore(ev) == ev.e = "store"

C14_ConnectOrder ==
  /\ s # None => socks[s].accepted /\ socks[s].nonblock
  /\ \A i \in 1..Len(log) :
       IsJoin(log[i]) =>
         \E j \in 1..(i - 1) :
            /\ IsRecv(log[j]) /\ log[j].sock = log[i].sock
            /\ log[j].data # LoginFailedNotice
  /\ CountEvents(IsStore) > 0 =>
       /\ 0 < IndexOf(IsPass)
       /\ IndexOf(IsPass) < IndexOf(IsNick)
       /\ IndexOf(IsNick) < IndexOf(IsRecv)
       /\ IndexOf(IsRecv) < IndexOf(IsNonblock)
       /\ IndexOf(IsNonblock) < IndexOf(IsStore)
       /\ IndexOf(IsStore) < IndexOf(IsJoinOwn)
       /\ IndexOf(IsJoinOwn) = Len(log)
       /\ CountEvents(IsClose) > 0 =>
            /\ IndexOf(IsNonblock) < IndexOf(IsClose)
            /\ IndexOf(IsClose) < IndexOf(IsStore)
            /\ log[IndexOf(IsClose)].sock # log[IndexOf(IsStore)].sock
       /\ \A e \in { IndexOf(IsPass), IndexOf(IsNick), IndexOf(IsRecv),
                     IndexOf(IsNonblock), IndexOf(IsJoinOwn) } :
            log[e].sock = log[IndexOf(IsStore)].sock
       /\ s = log[IndexOf(IsStore)].sock

\* A connect() that closed the previous handle and stored a new one.
C14_Witness ==
  /\ CountEvents(IsClose) > 0
  /\ CountEvents(IsStore) > 0
  /\ s = 2 /\ ~ socks[1].open /\ socks[2].open

(***************************************************************************)
(* C15.  _send_pong and send_chat_message go through one gate and one      *)
(* last_sent_time: a pong asked for within 5 seconds of the last write     *)
(* attempt is dropped, a pong that is written sets last_sent_time, and a   *)
(* chat message within 5 seconds of a written pong is dropped, as a pong   *)
(* within 5 seconds of a written chat message is.                          *)
(***************************************************************************)
C15_PongSharesGate ==
  /\ /\ gate.prev.passed
     /\ gate.last.who = "pong"
     /\ gate.last.t - gate.prev.t <= 5
     => ~ gate.last.sent /\ gate.last.raised = "none"
  /\ gate.last.who = "pong" /\ gate.last.sent => last_sent_time = gate.last.t
  /\ /\ gate.prev.who = "pong" /\ gate.prev.sent
     /\ gate.last.who = "chat"
     /\ gate.last.t - gate.prev.t <= 5
     => /\ ~ gate.last.sent /\ gate.last.raised = "none"
        /\ last_sent_time = gate.prev.t
  /\ /\ gate.prev.who = "chat" /\ gate.prev.sent
     /\ gate.last.who = "pong"
     /\ gate.last.t - gate.prev.t <= 5
     => last_sent_time = gate.prev.t

\* A chat message dropped within 5 seconds of a written pong.
C15_Witness ==
  /\ gate.prev.who = "pong" /\ gate.prev.sent
  /\ gate.last.who = "chat" /\ ~ gate.last.sent
  /\ gate.last.t - gate.prev.t <= 5
  /\ gate.last.t > gate.prev.t

(***************************************************************************)
(* C16.  _check_has_ping accepts the line "PING :tmi.twitch.tv" and the    *)
(* lines "PING :<suffix>.testserver.local" with a non-empty suffix of      *)
(* characters of [a-zA-Z0-9_], and no other line.                          *)
(***************************************************************************)
PingPrefix == S_PING \o << " ", ":" >>
TestserverTail == << "." >> \o S_testserver

IsTestserverPing(l) ==
  /\ Len(l) > Len(PingPrefix) + Len(TestserverTail)
  /\ HasAt(l, 1, PingPrefix)
  /\ HasAt(l, Len(l) - Len(TestserverTail) + 1, TestserverTail)
  /\ \A i \in (Len(PingPrefix) + 1)..(Len(l) - Len(TestserverTail)) :
       l[i] \in WordChars

C16_PingLanguage ==
  parsed # NotParsed /\ source = << >> =>
    (_check_has_ping(line) <=> (line = PingLine \/ IsTestserverPing(line)))

(***************************************************************************)
(* C17, as claimed.  The message text that _parse_message returns for a    *)
(* line is the remainder of the line after its final ":".                  *)
(***************************************************************************)
AfterFinalColon(l) ==
  SubSeq(l, Max({ i \in 1..Len(l) : l[i] = ":" }) + 1, Len(l))

C17_TextAfterFinalColon ==
  parsed.value # << >> => parsed.value[1].message = AfterFinalColon(line)

(***************************************************************************)
(* C17, amended.  The message text that _parse_message returns for a line  *)
(* is the remainder of the line after its first " :" (the colon that ends  *)
(* "PRIVMSG #<channel>"), without a final newline: a ":" in the text       *)
(* belongs to the text.                                                    *)
(***************************************************************************)
AfterFirstSpaceColon(l) ==
  SubSeq(l, Min({ i \in 1..(Len(l) - 1) : l[i] = " " /\ l[i + 1] = ":" }) + 2,
         Len(l))

WithoutFinalNewline(x) ==
  IF Len(x) > 0 /\ x[Len(x)] = LF THEN SubSeq(x, 1, Len(x) - 1) ELSE x

C17_TextAfterHeader ==
  parsed.value # << >> =>
    parsed.value[1].message = WithoutFinalNewline(AfterFirstSpaceColon(line))

\* A message whose text holds a ":" has been returned whole.
C17_Witness ==
  /\ parsed.value # << >>
  /\ parsed.value[1].message = << "n", "o", "t", "e", ":", " ", "x" >>
  /\ AfterFinalColon(line) = << " ", "x" >>

(***************************************************************************)
(* C18.  Nothing of a chunk is kept for the next read or the next call:    *)
(* every chunk is split and parsed on its own.  A chat line whose bytes    *)
(* arrive in two reads is not delivered; the messages collected are those  *)
(* of the chat lines that lie whole within one chunk.                      *)
(***************************************************************************)
HelloHead == SubSeq(HelloLine, 1, 20)
HelloTail == SubSeq(HelloLine, 21, Len(HelloLine)) \o CRLF

Collected == IF pc = "recv" THEN result ELSE ret

CountOf(seq, x) == Cardinality({ i \in 1..Len(seq) : seq[i] = x })

RECURSIVE WholeHelloLines(_)
WholeHelloLines(chunks) ==
  IF Len(chunks) = 0 THEN 0
  ELSE CountOf(LinesOf(Head(chunks)), HelloLine) + WholeHelloLines(Tail(chunks))

C18_NoReassembly ==
  InPoll /\ s # None /\ raised = "none" =>
    /\ CountOf(Collected, HelloMessage) = WholeHelloLines(received)
    /\ received = << HelloHead, HelloTail >> => Collected = << >>
    /\ \A i \in 1..Len(Collected) : Collected[i] \in { HelloMessage, ByeMessage }

\* Both halves of a chat line have been read, one after the other, and no
\* message has been collected.
C18_Witness ==
  /\ InPoll /\ pc = "recv" /\ raised = "none"
  /\ received = << HelloHead, HelloTail >>
  /\ result = << >>

(***************************************************************************)
(* C19.  last_sent_time starts as the time of construction (0) and         *)
(* connect() neither reads nor writes it, on a first connect or a          *)
(* reconnect: until _send has passed its gate once, last_sent_time is the  *)
(* time of construction, and a send_chat_message or pong passes the gate   *)
(* just if more than 5 seconds have gone by since construction.            *)
(***************************************************************************)
NoAttemptYet == ~ gate.prev.passed /\ ~ gate.last.passed

FirstSendWaits ==
  ~ gate.prev.passed /\ gate.last.who \in { "chat", "pong" } =>
    (gate.last.passed <=> gate.last.t > 5)

C19_ClockStartsAtConstruction ==
  [][ /\ op' = "connect" => UNCHANGED << last_sent_time, gate >>
      /\ NoAttemptYet' => last_sent_time' = 0
      /\ FirstSendWaits' ]_vars

\* The first send_chat_message, 5 seconds after construction and after
\* connect(), has been dropped.
C19_Witness ==
  /\ s # None
  /\ op = "send_chat_message"
  /\ ~ gate.prev.passed
  /\ gate.last.who = "chat" /\ gate.last.t = 5 /\ ~ gate.last.passed
  /\ last_sent_time = 0

(***************************************************************************)
(* C20, as claimed.  connect() takes the login as rejected just when the   *)
(* first response is exactly the line ":tmi.twitch.tv NOTICE * :Login      *)
(* unsuccessful" or ":testserver.local NOTICE * :Login unsuccessful"       *)
(* followed by CR LF; after any other first response (an empty one, the    *)
(* notice after or before other data) the new socket is stored and JOIN    *)
(* is sent.                                                                *)
(***************************************************************************)
ExactNotices == { LoginFailedNotice, TestserverFailedNotice }

\* connect() has read response and raised without storing a socket.
Rejected == raised # "none" /\ CountEvents(IsStore) = 0 /\ CountEvents(IsJoin) = 0

\* connect() has read response on socket sock, stored it and sent JOIN.
Joined(sock) ==
  /\ raised = "none"
  /\ s = sock /\ socks[sock].open
  /\ \E i \in 1..Len(log) : IsStore(log[i]) /\ log[i].sock = sock
  /\ \E i \in 1..Len(log) : IsJoinOwn(log[i]) /\ log[i].sock = sock

C20_RejectsExactNoticeOnly ==
  \A i \in 1..Len(log) :
     IsRecv(log[i]) =>
       IF log[i].data \in ExactNotices THEN Rejected ELSE Joined(log[i].sock)

(***************************************************************************)
(* C20, amended.  connect() takes the login as rejected just when the      *)
(* first response is one of the two notice lines followed by CR LF, or     *)
(* that followed by one more newline character ("$" of the expression      *)
(* also matches before a final newline); after any other first response    *)
(* the new socket is stored and JOIN is sent.                              *)
(***************************************************************************)
RejectedResponses == ExactNotices \cup { n \o << LF >> : n \in ExactNotices }

C20_RejectsNoticeAndNewline ==
  \A i \in 1..Len(log) :
     IsRecv(log[i]) =>
       IF log[i].data \in RejectedResponses THEN Rejected ELSE Joined(log[i].sock)

\* The notice after other data has been taken for a successful login.
C20_Witness ==
  /\ \E i \in 1..Len(log) :
        IsRecv(log[i]) /\ log[i].data = WelcomeNotice \o LoginFailedNotice
  /\ s # None
  /\ CountEvents(IsJoinOwn) = 1

=============================================================================
